---- MODULE Spec2Model ----
(***************************************************************************)
(* Task-tracking API: credential store, login/token issuing, the JWT       *)
(* authentication middleware, and the task service over its repository.    *)
(***************************************************************************)
EXTENDS Integers, Sequences, FiniteSets, TLC

VARIABLES
    users,      \* rows of the `user` table
    tasks,      \* rows of the `tasks` table, keyed by id
    nextTaskId, \* number of task ids generated so far (Uuid::new_v4 is fresh)
    creator,    \* history: task id -> user whose request created the task
    now,        \* wall clock, Unix seconds (Utc::now)
    ticks,      \* number of clock advances taken
    issued,     \* tokens handed out by login_user and held by clients
    reqs,       \* requests in flight on the JWT-protected router
    last,       \* response of the most recent task-route request
    calls,      \* register and login requests in flight on the auth handlers
    registered, \* history: username -> what its successful registration saw
    schema,     \* what the SQLite database holds: tables, columns, indexes
    migrator,   \* the run of Migrator::up or Migrator::down in progress
    updates     \* update_task calls in flight, between their find and their write

vars == <<users, tasks, nextTaskId, creator, now, ticks, issued, reqs, last,
          calls, registered, schema, migrator, updates>>

---------------------------------------------------------------------------
(* Bounds of the model *)

MaxTasks == 2
MaxTicks == 1
MaxTokens == 2
MaxReqs == 2
MaxCalls == 2
MaxUpdates == 2

(* Inputs *)

Usernames == {"alice", "bob"}
Passwords == {"pw1", "pw2"}
Titles == {"t1", "t2"}
Descriptions == {"d1"}
Secrets == {"s1", "s2"}
Reqs == 1..MaxReqs

(* Option<T>: None is << >>, Some(v) is <<v>> *)
None == << >>
Some(v) == <<v>>
IsSome(o) == Len(o) = 1
Unwrap(o) == o[1]

---------------------------------------------------------------------------
(* Configuration and constants of the program *)

\* the signing secret the server is configured with
jwt_secret == "s1"
\* login_user: expires_in = 24 * 60 * 60
expires_in == 86400
\* jsonwebtoken Validation::default(): leeway in seconds
leeway == 60
\* the clock advances by steps that land on a token's expiry, on the last
\* second of the validator's leeway, and on the first second past it
ClockSteps == {expires_in, expires_in + leeway, expires_in + leeway + 1}
\* a NULL uuid column
NULL == 0
\* the user that a request without a valid bearer token is issued by
Anonymous == 0

UNAUTHORIZED == 401
NOT_FOUND == 404
OK == 200
CREATED == 201
NO_CONTENT == 204
INTERNAL_SERVER_ERROR == 500

---------------------------------------------------------------------------
(* JWT tokens: jsonwebtoken encode / decode with HS256 *)

NoClaims == [sub |-> NULL, username |-> "", exp |-> 0, iat |-> 0]

\* HMAC of the payload under a secret: equal only for equal secret and payload
Sign(claims, secret) == <<secret, claims>>

\* encode(&Header::default(), &claims, &EncodingKey::from_secret(secret))
Encode(claims, secret) ==
    [wellformed |-> TRUE, payload |-> claims, sig |-> Sign(claims, secret)]

\* a string that is not a three-part JWT, e.g. "invalid-token"
Garbage == [wellformed |-> FALSE, payload |-> NoClaims, sig |-> Sign(NoClaims, "")]

\* faulty variant: decode that allows no leeway on the expiry
DecodeNoLeeway(token, secret, t) ==
    IF ~token.wellformed
    THEN [ok |-> FALSE, err |-> "InvalidToken", claims |-> NoClaims]
    ELSE IF token.sig # Sign(token.payload, secret)
    THEN [ok |-> FALSE, err |-> "InvalidSignature", claims |-> NoClaims]
    ELSE IF token.payload.exp < t
    THEN [ok |-> FALSE, err |-> "ExpiredSignature", claims |-> NoClaims]
    ELSE [ok |-> TRUE, err |-> "", claims |-> token.payload]

\* faulty variant: decode that reads the payload without verifying the signature
DecodeUnverified(token, secret, t) ==
    IF ~token.wellformed
    THEN [ok |-> FALSE, err |-> "InvalidToken", claims |-> NoClaims]
    ELSE IF token.payload.exp < t - leeway
    THEN [ok |-> FALSE, err |-> "ExpiredSignature", claims |-> NoClaims]
    ELSE [ok |-> TRUE, err |-> "", claims |-> token.payload]

\* decode::<Claims>(token, &DecodingKey::from_secret(secret), &Validation::default())
\* at wall-clock time t
Decode(token, secret, t) ==
    IF ~token.wellformed
    THEN [ok |-> FALSE, err |-> "InvalidToken", claims |-> NoClaims]
    ELSE IF token.sig # Sign(token.payload, secret)
    THEN [ok |-> FALSE, err |-> "InvalidSignature", claims |-> NoClaims]
    ELSE IF token.payload.exp < t - leeway
    THEN [ok |-> FALSE, err |-> "ExpiredSignature", claims |-> NoClaims]
    ELSE [ok |-> TRUE, err |-> "", claims |-> token.payload]

---------------------------------------------------------------------------
(* The Authorization header of a request *)

\* no Authorization header at all
NoHeader == [present |-> FALSE, readable |-> FALSE, scheme |-> "", token |-> Garbage]
\* a header whose bytes are not visible ASCII: HeaderValue::to_str fails
OpaqueHeader == [present |-> TRUE, readable |-> FALSE, scheme |-> "", token |-> Garbage]
\* "<scheme><token>", e.g. "Bearer eyJ..." (the scheme keeps its trailing blank)
Header(scheme, token) ==
    [present |-> TRUE, readable |-> TRUE, scheme |-> scheme, token |-> token]
Bearer(token) == Header("Bearer ", token)

\* what a client can make of a token it holds without knowing the server's
\* secret: sign the same claims with a secret of its own, or edit the payload
\* (a later expiry, another subject) and keep the old signature
Resigned(t) == {Encode(t.payload, s) : s \in Secrets \ {jwt_secret}}
Tampered(t) ==
    {[t EXCEPT !.payload.exp = @ + expires_in]}
    \cup {[t EXCEPT !.payload.sub = u.id, !.payload.username = u.username] :
            u \in {v \in users : v.id # t.payload.sub}}

\* every token a client can present
ClientTokens ==
    issued \cup UNION {Resigned(t) \cup Tampered(t) : t \in issued} \cup {Garbage}

\* every Authorization header a client can send
ClientHeaders ==
    {NoHeader, OpaqueHeader}
    \cup {Header("Basic ", t) : t \in issued}
    \cup {Bearer(t) : t \in ClientTokens}

---------------------------------------------------------------------------
(* The JWT authentication middleware *)

NoUser == [user_id |-> NULL, username |-> ""]

\* impl From<Claims> for AuthenticatedUser
AuthenticatedUserFrom(claims) ==
    [user_id |-> claims.sub, username |-> claims.username]

\* faulty variant: a middleware that decodes whatever follows the first seven
\* characters of the header, Bearer or not
JwtAuthVerdictAnyScheme(header, secret, t) ==
    IF ~(header.present /\ header.readable)
    THEN [admit |-> FALSE, decoded |-> FALSE, user |-> NoUser, status |-> UNAUTHORIZED]
    ELSE LET d == Decode(header.token, secret, t) IN
         IF ~d.ok
         THEN [admit |-> FALSE, decoded |-> TRUE, user |-> NoUser,
               status |-> UNAUTHORIZED]
         ELSE [admit |-> TRUE, decoded |-> TRUE,
               user |-> [user_id |-> d.claims.sub, username |-> d.claims.username],
               status |-> 0]

\* faulty variant: a middleware that answers 400 to a missing or malformed header and
\* 401 only to a token that fails verification
JwtAuthVerdictBadRequest(header, secret, t) ==
    IF ~(header.present /\ header.readable)
    THEN [admit |-> FALSE, decoded |-> FALSE, user |-> NoUser, status |-> 400]
    ELSE IF header.scheme # "Bearer "
    THEN [admit |-> FALSE, decoded |-> FALSE, user |-> NoUser, status |-> 400]
    ELSE LET d == Decode(header.token, secret, t) IN
         IF ~d.ok
         THEN [admit |-> FALSE, decoded |-> TRUE, user |-> NoUser,
               status |-> UNAUTHORIZED]
         ELSE [admit |-> TRUE, decoded |-> TRUE,
               user |-> [user_id |-> d.claims.sub, username |-> d.claims.username],
               status |-> 0]

\* jwt_auth_impl up to the call of `next`: the verdict on one request at time t.
\* `decoded` tells whether jsonwebtoken::decode was called; `status` is the
\* status code of the early return, 0 when there is none.
JwtAuthVerdict(header, secret, t) ==
    IF ~(header.present /\ header.readable)
    THEN [admit |-> FALSE, decoded |-> FALSE, user |-> NoUser, status |-> UNAUTHORIZED]
    ELSE IF header.scheme # "Bearer "
    THEN [admit |-> FALSE, decoded |-> FALSE, user |-> NoUser, status |-> UNAUTHORIZED]
    ELSE LET d == Decode(header.token, secret, t) IN
         IF ~d.ok
         THEN [admit |-> FALSE, decoded |-> TRUE, user |-> NoUser,
               status |-> UNAUTHORIZED]
         ELSE [admit |-> TRUE, decoded |-> TRUE,
               user |-> AuthenticatedUserFrom(d.claims), status |-> 0]

\* the response axum builds from Err(status): the status line and an empty body
StatusResponse(status) == [status |-> status, body |-> NoUser]

\* protected_handler of the middleware's integration tests: the next stage
ProtectedHandler(ext) ==
    IF ext.present
    THEN [status |-> OK, body |-> ext.user]
    ELSE [status |-> INTERNAL_SERVER_ERROR, body |-> NoUser]

IdleReq ==
    [pc |-> "idle", header |-> NoHeader, secret |-> jwt_secret,
     decoded |-> FALSE, ext |-> [present |-> FALSE, user |-> NoUser],
     ran |-> FALSE, resp |-> [status |-> 0, body |-> NoUser]]

\* a request arrives at a router layered with create_jwt_auth_middleware(secret)
Receive(r, header, secret) ==
    /\ reqs[r].pc \in {"idle", "done"}
    /\ reqs' = [reqs EXCEPT ![r] = [IdleReq EXCEPT !.pc = "auth", !.header = header,
                                                   !.secret = secret]]
    /\ UNCHANGED <<updates, schema, migrator, calls, registered, users, tasks, nextTaskId, creator,
                   now, ticks, issued, last>>

\* faulty variant: a middleware with sliding sessions, which also admits a
\* token that another request presented and got admitted with before
JwtAuthSliding(r) ==
    /\ reqs[r].pc = "auth"
    /\ LET v == JwtAuthVerdict(reqs[r].header, reqs[r].secret, now)
           seen == \E q \in Reqs \ {r} :
                      /\ reqs[q].ext.present
                      /\ reqs[q].header = reqs[r].header
                      /\ reqs[q].secret = reqs[r].secret IN
       reqs' = [reqs EXCEPT ![r] =
                  IF v.admit \/ seen
                  THEN [@ EXCEPT !.pc = "next", !.decoded = TRUE,
                                 !.ext = [present |-> TRUE,
                                          user |-> AuthenticatedUserFrom(
                                                       reqs[r].header.token.payload)]]
                  ELSE [@ EXCEPT !.pc = "done", !.decoded = v.decoded,
                                 !.resp = StatusResponse(v.status)]]
    /\ UNCHANGED <<updates, schema, migrator, calls, registered, users, tasks, nextTaskId, creator,
                   now, ticks, issued, last>>

\* jwt_auth_impl: extract, verify, and either reject or attach the principal
JwtAuth(r) ==
    /\ reqs[r].pc = "auth"
    /\ LET v == JwtAuthVerdict(reqs[r].header, reqs[r].secret, now) IN
       reqs' = [reqs EXCEPT ![r] =
                  IF v.admit
                  THEN [@ EXCEPT !.pc = "next", !.decoded = v.decoded,
                                 !.ext = [present |-> TRUE, user |-> v.user]]
                  ELSE [@ EXCEPT !.pc = "done", !.decoded = v.decoded,
                                 !.resp = StatusResponse(v.status)]]
    /\ UNCHANGED <<updates, schema, migrator, calls, registered, users, tasks, nextTaskId, creator,
                   now, ticks, issued, last>>

\* faulty variant: the principal is kept in one place shared by all requests: the
\* handler sees the principal of whichever admitted request comes first
RunNextShared(r) ==
    /\ reqs[r].pc = "next"
    /\ LET first == CHOOSE q \in Reqs :
                        /\ reqs[q].ext.present
                        /\ \A o \in Reqs : reqs[o].ext.present => q <= o IN
       reqs' = [reqs EXCEPT ![r] = [@ EXCEPT !.pc = "done", !.ran = TRUE,
                                            !.resp = ProtectedHandler(reqs[first].ext)]]
    /\ UNCHANGED <<updates, schema, migrator, calls, registered, users, tasks, nextTaskId, creator,
                   now, ticks, issued, last>>

\* next.run(req).await: the downstream handler runs on this request's extensions
RunNext(r) ==
    /\ reqs[r].pc = "next"
    /\ reqs' = [reqs EXCEPT ![r] = [@ EXCEPT !.pc = "done", !.ran = TRUE,
                                              !.resp = ProtectedHandler(reqs[r].ext)]]
    /\ UNCHANGED <<updates, schema, migrator, calls, registered, users, tasks, nextTaskId, creator,
                   now, ticks, issued, last>>

---------------------------------------------------------------------------
(* Registration and login *)

\* faulty variant: hashing with one constant salt
HashPasswordFixedSalt(password, salt) == [salt |-> 0, digest |-> <<password, 0>>]

\* Argon2 hash_password with a salt: the PHC string carries the salt, and the
\* digest is determined by the password and the salt
HashPassword(password, salt) == [salt |-> salt, digest |-> <<password, salt>>]

\* faulty variant: a verification whose outcome is not looked at
VerifyPasswordUnchecked(password, hash) == TRUE

\* Argon2 verify_password: re-derive with the embedded salt and compare
VerifyPassword(password, hash) == hash.digest = <<password, hash.salt>>

\* UserRepository::find_by_username
FindByUsername(username) == {u \in users : u.username = username}

\* register_user: pre-check, hash, insert
RegisterUser(username, password) ==
    /\ FindByUsername(username) = {}
    /\ LET id == Cardinality(users) + 1 IN
       users' = users \cup {[id |-> id, username |-> username,
                             password_hash |-> HashPassword(password, id)]}
    /\ UNCHANGED <<updates, schema, migrator, calls, registered, tasks, nextTaskId, creator, now,
                   ticks, issued, reqs, last>>

\* faulty variant: claims whose exp is the time of the login itself
LoginClaimsNoLifetime(user, t) ==
    [sub |-> user.id, username |-> user.username, exp |-> t, iat |-> t]

\* the claims login_user builds for a user at time t
LoginClaims(user, t) ==
    [sub |-> user.id, username |-> user.username, exp |-> t + expires_in, iat |-> t]

\* faulty variant: a login that signs a token for whatever username it is
\* given, stored or not
LoginUserNoLookup(username, password) ==
    /\ Cardinality(issued) < MaxTokens
    /\ issued' = issued \cup
          {Encode(LoginClaims([id |-> Cardinality(users) + 1, username |-> username], now),
                  jwt_secret)}
    /\ UNCHANGED <<updates, schema, migrator, calls, registered, users, tasks, nextTaskId,
                   creator, now, ticks, reqs, last>>

\* login_user: look up, verify, sign a token with the configured secret
LoginUser(username, password) ==
    /\ Cardinality(issued) < MaxTokens
    /\ \E user \in FindByUsername(username) :
          /\ VerifyPassword(password, user.password_hash)
          /\ issued' = issued \cup {Encode(LoginClaims(user, now), jwt_secret)}
    /\ UNCHANGED <<updates, schema, migrator, calls, registered, users, tasks, nextTaskId, creator,
                   now, ticks, reqs, last>>

\* time passes
Tick(d) ==
    /\ ticks < MaxTicks
    /\ now' = now + d
    /\ ticks' = ticks + 1
    /\ UNCHANGED <<updates, schema, migrator, calls, registered, users, tasks, nextTaskId, creator,
                   issued, reqs, last>>

---------------------------------------------------------------------------
(* The task service over the task repository *)

\* ids a request path can name: every generated id and one never generated
PathIds == 1..(MaxTasks + 1)

\* owner values a client can put into the JSON body of POST /api/tasks
BodyOwners == {NULL} \cup {u.id : u \in users}

\* CreateTaskPayload as deserialized: title, description, completed. A
\* `user_id` member of the JSON body is no field of the struct and is dropped.
CreateTaskPayload(title, description, completed, body_user_id) ==
    [title |-> title, description |-> description, completed |-> completed]

\* the JSON bodies sent to PUT /api/tasks/:id, member by member: None for a
\* member left out, Some(None) for an explicit null (the description only),
\* Some(Some(d)) or Some(v) for a value
UpdateBodies ==
    [title : {None} \cup {Some(t) : t \in Titles},
     description : {None, Some(None)} \cup {Some(Some(d)) : d \in Descriptions},
     completed : {None, Some(TRUE), Some(FALSE)}]

\* the update bodies sent to the task routes: nothing, or one member at a time
FieldUpdates ==
    {p \in UpdateBodies :
        Len(p.title) + Len(p.description) + Len(p.completed) <= 1}

\* double_option::deserialize with #[serde(default)]: a member left out takes
\* the default None, and the Option<Option<T>> read from a member present is
\* matched None => None, Some(None) => None, Some(Some(val)) => Some(val)
double_option(member) == IF IsSome(member) THEN Unwrap(member) ELSE None

\* UpdateTaskPayload as serde deserializes it from a body
UpdateTaskPayload(body) ==
    [title |-> body.title, description |-> double_option(body.description),
     completed |-> body.completed]

\* headers sent along with task requests
TaskHeaders == {NoHeader, Bearer(Garbage)} \cup {Bearer(t) : t \in issued}

\* the user a request is issued by: the principal the token validator derives
\* from its Authorization header, Anonymous when it admits none
Caller(header) ==
    LET v == JwtAuthVerdict(header, jwt_secret, now) IN
    IF v.admit THEN v.user.user_id ELSE Anonymous

\* TaskRepository::find_all: Entity::find().all()
find_all == DOMAIN tasks

\* TaskRepository::find_by_id: Entity::find_by_id(id).one()
find_by_id(id) == IF id \in DOMAIN tasks THEN Some(tasks[id]) ELSE None

\* the row `create_task` inserts: the ActiveModel sets id, title, description
\* and completed; the timestamps take the column default, and `user_id`, a
\* nullable column the entity has no field for, stays NULL
NewTaskRow(payload) ==
    [title |-> payload.title, description |-> payload.description,
     completed |-> payload.completed, created_at |-> now, updated_at |-> now,
     user_id |-> NULL]

\* the Task the API returns for a row
TaskDto(id, row) ==
    [id |-> id, title |-> row.title, description |-> row.description,
     completed |-> row.completed]

\* the fields update_task sets on the ActiveModel of the row it found: each
\* one under `if let Some(..) = payload.<field>`, the others stay NotSet
UpdatedRow(row, payload) ==
    [row EXCEPT
        !.title = IF IsSome(payload.title) THEN Unwrap(payload.title) ELSE @,
        !.description =
            IF IsSome(payload.description) THEN Some(Unwrap(payload.description)) ELSE @,
        !.completed = IF IsSome(payload.completed) THEN Unwrap(payload.completed) ELSE @]

Response(op, header, id, status, body) ==
    [op |-> op, caller |-> Caller(header), id |-> id, status |-> status, body |-> body]

\* POST /api/tasks: create_task
CreateTask(header, payload) ==
    /\ nextTaskId < MaxTasks
    /\ LET id == nextTaskId + 1
           row == NewTaskRow(payload) IN
       /\ nextTaskId' = id
       /\ tasks' = tasks @@ (id :> row)
       /\ creator' = creator @@ (id :> Caller(header))
       /\ last' = Response("create", header, id, CREATED, {TaskDto(id, row)})
    /\ UNCHANGED <<updates, schema, migrator, calls, registered, users, now, ticks, issued, reqs>>

\* GET /api/tasks: get_all_tasks
GetAllTasks(header) ==
    /\ last' = Response("list", header, 0, OK, {TaskDto(id, tasks[id]) : id \in find_all})
    /\ UNCHANGED <<updates, schema, migrator, calls, registered, users, tasks, nextTaskId, creator,
                   now, ticks, issued, reqs>>

\* GET /api/tasks/:id: get_task_by_id
GetTaskById(header, id) ==
    /\ LET found == find_by_id(id) IN
       last' = IF IsSome(found)
               THEN Response("get", header, id, OK, {TaskDto(id, Unwrap(found))})
               ELSE Response("get", header, id, NOT_FOUND, {})
    /\ UNCHANGED <<updates, schema, migrator, calls, registered, users, tasks, nextTaskId, creator,
                   now, ticks, issued, reqs>>

\* PUT /api/tasks/:id: update_task
UpdateTask(header, id, body) ==
    /\ LET found == find_by_id(id)
           payload == UpdateTaskPayload(body) IN
       IF IsSome(found)
       THEN LET row == UpdatedRow(Unwrap(found), payload) IN
            /\ tasks' = [tasks EXCEPT ![id] = row]
            /\ last' = Response("update", header, id, OK, {TaskDto(id, row)})
       ELSE /\ tasks' = tasks
            /\ last' = Response("update", header, id, NOT_FOUND, {})
    /\ UNCHANGED <<updates, schema, migrator, calls, registered, users, nextTaskId, creator, now,
                   ticks, issued, reqs>>

\* faulty variant: a delete that answers 204 without looking at rows_affected
DeleteTaskAlwaysOk(header, id) ==
    /\ tasks' = [i \in DOMAIN tasks \ {id} |-> tasks[i]]
    /\ last' = Response("delete", header, id, NO_CONTENT, {})
    /\ UNCHANGED <<updates, schema, migrator, calls, registered, users, nextTaskId, creator, now,
                   ticks, issued, reqs>>

\* DELETE /api/tasks/:id: delete_task
DeleteTask(header, id) ==
    /\ LET rows_affected == IF id \in DOMAIN tasks THEN 1 ELSE 0 IN
       /\ tasks' = [i \in DOMAIN tasks \ {id} |-> tasks[i]]
       /\ last' = IF rows_affected = 0
                  THEN Response("delete", header, id, NOT_FOUND, {})
                  ELSE Response("delete", header, id, NO_CONTENT, {})
    /\ UNCHANGED <<updates, schema, migrator, calls, registered, users, nextTaskId, creator, now,
                   ticks, issued, reqs>>

---------------------------------------------------------------------------
(* The register and login handlers over the credential store *)

BAD_REQUEST == 400
CONFLICT == 409

Calls == 1..MaxCalls

\* a username of 51 characters
LongName == "abcdefghijabcdefghijabcdefghijabcdefghijabcdefghijk"

\* request bodies sent to the register handler: each password with a matching
\* or a different confirmation
RegisterRequests ==
    {r \in [username : {"al", "alice", LongName},
            password : {"passw0rd", "hunter22", "short"},
            confirm_password : {"passw0rd", "hunter22", "short"}] :
        r.confirm_password \in {r.password, "short"}}

\* request bodies sent to the login handler
LoginRequests ==
    [username : {"", "alice", "bobby"},
     password : {"", "passw0rd", "hunter22"}]

\* faulty variant: a validation that does not compare the confirmation
ValidRegisterRequestNoConfirm(payload) ==
    /\ Len(payload.username) >= 3
    /\ Len(payload.password) >= 8

\* #[derive(Validate)] on RegisterRequest: length(min = 3), length(min = 8),
\* must_match(other = "password")
ValidRegisterRequest(payload) ==
    /\ Len(payload.username) >= 3
    /\ Len(payload.password) >= 8
    /\ payload.confirm_password = payload.password

\* #[derive(Validate)] on LoginRequest: length(min = 1) on both fields
ValidLoginRequest(payload) ==
    /\ Len(payload.username) >= 1
    /\ Len(payload.password) >= 1

\* faulty variant: the message of a hashing or signing failure carries its detail
ErrorResponseVerbose(err) ==
    CASE err.kind = "TaskNotFound" ->
           [status |-> NOT_FOUND, message |-> <<"task not found", err.arg>>]
      [] err.kind = "BadRequest" ->
           [status |-> BAD_REQUEST, message |-> <<err.arg>>]
      [] err.kind = "UserAlreadyExists" ->
           [status |-> CONFLICT, message |-> <<"username already exists", err.arg>>]
      [] err.kind = "InvalidCredentials" ->
           [status |-> UNAUTHORIZED, message |-> <<"wrong username or password">>]
      [] err.kind = "DbErr" ->
           [status |-> INTERNAL_SERVER_ERROR, message |-> <<"internal server error">>]
      [] err.kind \in {"PasswordHashError", "TokenGenerationError"} ->
           [status |-> INTERNAL_SERVER_ERROR,
            message |-> <<"internal server error", err.arg>>]
      [] err.kind = "InvalidToken" ->
           [status |-> UNAUTHORIZED, message |-> <<"invalid token", err.arg>>]

\* AppError::into_response: the status and the message of the JSON error body.
\* err.arg is the value the variant carries: an id, a message, a username, or
\* the detail of an internal failure.
ErrorResponse(err) ==
    CASE err.kind = "TaskNotFound" ->
           [status |-> NOT_FOUND, message |-> <<"task not found", err.arg>>]
      [] err.kind = "BadRequest" ->
           [status |-> BAD_REQUEST, message |-> <<err.arg>>]
      [] err.kind = "UserAlreadyExists" ->
           [status |-> CONFLICT, message |-> <<"username already exists", err.arg>>]
      [] err.kind = "InvalidCredentials" ->
           [status |-> UNAUTHORIZED, message |-> <<"wrong username or password">>]
      [] err.kind \in {"DbErr", "PasswordHashError", "TokenGenerationError"} ->
           [status |-> INTERNAL_SERVER_ERROR, message |-> <<"internal server error">>]
      [] err.kind = "InvalidToken" ->
           [status |-> UNAUTHORIZED, message |-> <<"invalid token", err.arg>>]

AppError(kind, arg) == [kind |-> kind, arg |-> arg]

\* faulty variant: the entity itself is handed out as the profile
UserResponseWhole(model) == model

\* impl From<Model> for UserResponse
UserResponseFrom(model) == [id |-> model.id, username |-> model.username]

\* what a call hands back: Ok(value) or Err(AppError), with the HTTP response
\* the handler makes of it
NoValue == [user |-> [id |-> NULL, username |-> ""]]
NoError == AppError("", "")
Pending == [ok |-> FALSE, err |-> NoError, value |-> NoValue,
            response |-> [status |-> 0, message |-> << >>]]
Ok(status, value) ==
    [ok |-> TRUE, err |-> NoError, value |-> value,
     response |-> [status |-> status, message |-> << >>]]
Err(err) ==
    [ok |-> FALSE, err |-> err, value |-> NoValue, response |-> ErrorResponse(err)]

IdleCall ==
    [op |-> "", pc |-> "idle",
     payload |-> [username |-> "", password |-> "", confirm_password |-> ""],
     read |-> FALSE, wrote |-> FALSE, result |-> Pending]

Finish(c, read, wrote, result) ==
    [calls EXCEPT ![c].pc = "done", ![c].read = read, ![c].wrote = wrote,
                  ![c].result = result]

\* the UNIQUE constraint on user.username, as the store applies it to an insert
UniqueUsername(username) == \A u \in users : u.username # username

\* faulty variant: a registration that leaves the duplicate check to the store
RegisterHandlerNoPrecheck(c, payload) ==
    /\ calls[c].pc \in {"idle", "done"}
    /\ LET call == [IdleCall EXCEPT !.op = "register", !.payload = payload] IN
       calls' = [calls EXCEPT ![c] =
          IF ~ValidRegisterRequest(payload)
          THEN [call EXCEPT !.pc = "done",
                            !.result = Err(AppError("BadRequest", "input validation failed"))]
          ELSE [call EXCEPT !.pc = "insert"]]
    /\ UNCHANGED <<updates, schema, migrator, users, tasks, nextTaskId, creator, now, ticks,
                   issued, reqs,
                   last, registered>>

\* register_handler down to the pre-check of register_user: validate the
\* body, then look the username up
RegisterHandler(c, payload) ==
    /\ calls[c].pc \in {"idle", "done"}
    /\ LET call == [IdleCall EXCEPT !.op = "register", !.payload = payload] IN
       calls' = [calls EXCEPT ![c] =
          IF ~ValidRegisterRequest(payload)
          THEN [call EXCEPT !.pc = "done",
                            !.result = Err(AppError("BadRequest", "input validation failed"))]
          ELSE IF FindByUsername(payload.username) # {}
          THEN [call EXCEPT !.pc = "done", !.read = TRUE,
                   !.result = Err(AppError("UserAlreadyExists", payload.username))]
          ELSE [call EXCEPT !.pc = "insert", !.read = TRUE]]
    /\ UNCHANGED <<updates, schema, migrator, users, tasks, nextTaskId, creator, now, ticks,
                   issued, reqs,
                   last, registered>>

\* faulty variant: an insert that the store takes whatever the username
RegisterInsertUnchecked(c) ==
    /\ calls[c].pc = "insert"
    /\ LET payload == calls[c].payload
           id == Cardinality(users) + 1
           model == [id |-> id, username |-> payload.username,
                     password_hash |-> HashPassword(payload.password, id)] IN
       /\ users' = users \cup {model}
       /\ calls' = Finish(c, TRUE, TRUE,
                          Ok(CREATED, [user |-> UserResponseFrom(model)]))
       /\ registered' = registered @@
             (payload.username :> [id |-> id, password |-> payload.password])
    /\ UNCHANGED <<updates, schema, migrator, tasks, nextTaskId, creator, now, ticks, issued,
                   reqs, last>>

\* faulty variant: an insert that replaces the row of a taken username
RegisterInsertUpsert(c) ==
    /\ calls[c].pc = "insert"
    /\ LET payload == calls[c].payload
           id == Cardinality(users) + 1
           model == [id |-> id, username |-> payload.username,
                     password_hash |-> HashPassword(payload.password, id)] IN
       /\ users' = {u \in users : u.username # payload.username} \cup {model}
       /\ calls' = Finish(c, TRUE, TRUE,
                          Ok(CREATED, [user |-> UserResponseFrom(model)]))
       /\ registered' = registered @@
             (payload.username :> [id |-> id, password |-> payload.password])
    /\ UNCHANGED <<updates, schema, migrator, tasks, nextTaskId, creator, now, ticks, issued,
                   reqs, last>>

\* register_user from the hashing on: hash with a fresh salt, build the
\* ActiveModel with a fresh id, and UserRepository::create
RegisterInsert(c) ==
    /\ calls[c].pc = "insert"
    /\ LET payload == calls[c].payload
           id == Cardinality(users) + 1
           model == [id |-> id, username |-> payload.username,
                     password_hash |-> HashPassword(payload.password, id)] IN
       IF UniqueUsername(payload.username)
       THEN /\ users' = users \cup {model}
            /\ calls' = Finish(c, TRUE, TRUE,
                               Ok(CREATED, [user |-> UserResponseFrom(model)]))
            /\ registered' = registered @@
                  (payload.username :> [id |-> id, password |-> payload.password])
       ELSE /\ calls' = Finish(c, TRUE, FALSE, Err(AppError("DbErr", "UNIQUE constraint failed")))
            /\ UNCHANGED <<updates, schema, migrator, users, registered>>
    /\ UNCHANGED <<updates, schema, migrator, tasks, nextTaskId, creator, now, ticks, issued,
                   reqs, last>>

\* faulty variant: login_user telling an unknown username from a wrong password
login_user_revealing(payload, t) ==
    LET found == FindByUsername(payload.username) IN
    IF found = {}
    THEN [ok |-> FALSE, err |-> AppError("UserNotFound", payload.username),
          value |-> NoValue,
          response |-> [status |-> NOT_FOUND, message |-> <<"user not found">>]]
    ELSE LET user == CHOOSE u \in found : TRUE IN
         IF ~VerifyPassword(payload.password, user.password_hash)
         THEN Err(AppError("InvalidCredentials", ""))
         ELSE Ok(OK, [access_token |-> Encode(LoginClaims(user, t), jwt_secret),
                      token_type |-> "Bearer",
                      expires_in |-> expires_in,
                      user |-> UserResponseFrom(user)])

\* a stored password_hash that is no PHC string
MalformedHash == [salt |-> NULL, digest |-> << >>]

\* PasswordHash::new: parse the stored PHC string
PasswordHashNew(hash) == hash.digest # << >>

\* faulty variant: a login that goes on when the stored hash does not parse
login_with_unparsed(found, payload, t) ==
    IF found = {}
    THEN Err(AppError("InvalidCredentials", ""))
    ELSE LET user == CHOOSE u \in found : TRUE IN
         IF /\ PasswordHashNew(user.password_hash)
            /\ ~VerifyPassword(payload.password, user.password_hash)
         THEN Err(AppError("InvalidCredentials", ""))
         ELSE Ok(OK, [access_token |-> Encode(LoginClaims(user, t), jwt_secret),
                      token_type |-> "Bearer",
                      expires_in |-> expires_in,
                      user |-> UserResponseFrom(user)])

\* login_user at time t, from what find_by_username returned on: parse the
\* stored hash, verify the password, sign a token
login_with(found, payload, t) ==
    IF found = {}
    THEN Err(AppError("InvalidCredentials", ""))
    ELSE LET user == CHOOSE u \in found : TRUE IN
         IF ~PasswordHashNew(user.password_hash)
         THEN Err(AppError("PasswordHashError", "invalid PHC string"))
         ELSE IF ~VerifyPassword(payload.password, user.password_hash)
         THEN Err(AppError("InvalidCredentials", ""))
         ELSE Ok(OK, [access_token |-> Encode(LoginClaims(user, t), jwt_secret),
                      token_type |-> "Bearer",
                      expires_in |-> expires_in,
                      user |-> UserResponseFrom(user)])

\* login_user at time t over the user repository
login_user(payload, t) == login_with(FindByUsername(payload.username), payload, t)

\* login_handler: validate the body, then login_user
LoginHandler(c, payload) ==
    /\ calls[c].pc \in {"idle", "done"}
    /\ LET valid == ValidLoginRequest(payload)
           result == IF valid THEN login_user(payload, now)
                     ELSE Err(AppError("BadRequest", "input validation failed")) IN
       /\ calls' = [calls EXCEPT ![c] =
                      [IdleCall EXCEPT !.op = "login", !.payload = payload,
                                       !.pc = "done", !.read = valid,
                                       !.result = result]]
       /\ issued' = IF result.ok THEN issued \cup {result.value.access_token}
                    ELSE issued
    /\ UNCHANGED <<updates, schema, migrator, users, tasks, nextTaskId, creator, now, ticks,
                   reqs, last,
                   registered>>

\* what the MockUserRepository of the service's unit tests can be set up to
\* return from find_by_username: nothing, or a user model of the test's making
MockModels ==
    {[id |-> 1, username |-> "alice", password_hash |-> h] :
        h \in {HashPassword("passw0rd", 1), MalformedHash}}
MockFindResults == {{}} \cup {{m} : m \in MockModels}

\* login_user called on a MockUserRepository set up with `found`
MockLoginUser(c, found, payload) ==
    /\ LET result == login_with(found, payload, now) IN
       /\ calls' = [calls EXCEPT ![c] =
                      [IdleCall EXCEPT !.op = "login", !.payload = payload,
                                       !.pc = "done", !.read = TRUE,
                                       !.result = result]]
       /\ issued' = IF result.ok THEN issued \cup {result.value.access_token}
                    ELSE issued
    /\ UNCHANGED <<updates, schema, migrator, users, tasks, nextTaskId, creator, now, ticks,
                   reqs, last,
                   registered>>

\* what the mock returns from find_by_username when register_user is driven:
\* Ok(None), Ok(Some(model)) or Err(DbErr)
MockFindOutcomes ==
    {[ok |-> TRUE, found |-> f] : f \in MockFindResults}
        \cup {[ok |-> FALSE, found |-> {}]}

\* what the mock returns from create: Ok(model) or Err(DbErr)
MockCreateOutcomes == BOOLEAN

\* faulty variant: a registration that hashes and persists without looking at
\* what the lookup found
register_user_unchecked(find, create, payload) ==
    IF ~find.ok
    THEN [created |-> FALSE, result |-> Err(AppError("DbErr", "lookup failed"))]
    ELSE [created |-> TRUE,
          result |-> IF create
                     THEN Ok(CREATED, [user |-> [id |-> 1, username |-> payload.username]])
                     ELSE Err(AppError("DbErr", "insert failed"))]

\* register_user over a repository whose find_by_username returns `find` and
\* whose create returns `create`: the result, and whether create was called.
\* The `?` on the lookup returns its DbErr, a user found returns
\* UserAlreadyExists, and only then the password is hashed and create called.
register_user(find, create, payload) ==
    IF ~find.ok
    THEN [created |-> FALSE, result |-> Err(AppError("DbErr", "lookup failed"))]
    ELSE IF find.found # {}
    THEN [created |-> FALSE,
          result |-> Err(AppError("UserAlreadyExists", payload.username))]
    ELSE [created |-> TRUE,
          result |-> IF create
                     THEN Ok(CREATED, [user |-> UserResponseFrom(
                                 [id |-> 1, username |-> payload.username,
                                  password_hash |-> HashPassword(payload.password, 1)])])
                     ELSE Err(AppError("DbErr", "insert failed"))]

\* register_user called on a MockUserRepository set up with `find` and `create`
MockRegisterUser(c, find, create, payload) ==
    /\ LET r == register_user(find, create, payload) IN
       calls' = [calls EXCEPT ![c] =
                   [IdleCall EXCEPT !.op = "register", !.payload = payload,
                                    !.pc = "done", !.read = TRUE,
                                    !.wrote = r.created, !.result = r.result]]
    /\ UNCHANGED <<updates, schema, migrator, users, tasks, nextTaskId, creator, now, ticks,
                   issued, reqs, last, registered>>

\* the values an AppError can carry to the response boundary
ErrorDetails == {"detail 1", "detail 2", "detail 3"}
AppErrors ==
    {AppError(k, a) :
        k \in {"TaskNotFound", "BadRequest", "DbErr", "UserAlreadyExists",
               "PasswordHashError", "TokenGenerationError", "InvalidToken"},
        a \in ErrorDetails}
    \cup {AppError("InvalidCredentials", "")}

\* a handler returns Err(err): axum calls err.into_response()
IntoResponse(c, err) ==
    /\ calls' = [calls EXCEPT ![c] =
                   [IdleCall EXCEPT !.op = "error", !.pc = "done",
                                    !.result = Err(err)]]
    /\ UNCHANGED <<updates, schema, migrator, users, tasks, nextTaskId, creator, now, ticks,
                   issued, reqs,
                   last, registered>>

---------------------------------------------------------------------------

---------------------------------------------------------------------------
(* update_task step by step, beside other requests *)

Updates == 1..MaxUpdates

IdleUpdate ==
    [pc |-> "idle", id |-> 0,
     payload |-> [title |-> None, description |-> None, completed |-> None],
     resp |-> [status |-> 0, body |-> {}]]

\* update_task up to its second await: find_by_id, TaskNotFound for None, and
\* for a row found the ActiveModel with the payload's fields Set
FindForUpdate(u, id, body) ==
    /\ updates[u].pc \in {"idle", "done"}
    /\ updates' = [updates EXCEPT ![u] =
          IF IsSome(find_by_id(id))
          THEN [IdleUpdate EXCEPT !.pc = "write", !.id = id,
                                  !.payload = UpdateTaskPayload(body)]
          ELSE [IdleUpdate EXCEPT !.pc = "done", !.id = id,
                   !.resp = [status |-> ErrorResponse(AppError("TaskNotFound", id)).status,
                             body |-> {}]]]
    /\ UNCHANGED <<schema, migrator, users, tasks, nextTaskId, creator, now, ticks,
                   issued, reqs, last, calls, registered>>

\* faulty variant: a write that saves the model it holds, inserting the row
\* when it is gone
WriteUpdateUpsert(u) ==
    /\ updates[u].pc = "write"
    /\ LET id == updates[u].id
           base == IF id \in DOMAIN tasks THEN tasks[id]
                   ELSE [title |-> "t1", description |-> None, completed |-> FALSE,
                         created_at |-> now, updated_at |-> now, user_id |-> NULL]
           row == UpdatedRow(base, updates[u].payload) IN
       /\ tasks' = [i \in DOMAIN tasks \cup {id} |-> IF i = id THEN row ELSE tasks[i]]
       /\ updates' = [updates EXCEPT ![u].pc = "done",
                         ![u].resp = [status |-> OK, body |-> {TaskDto(id, row)}]]
    /\ UNCHANGED <<schema, migrator, users, nextTaskId, creator, now, ticks,
                   issued, reqs, last, calls, registered>>

\* update_task from repo.update on: ActiveModel::update issues UPDATE tasks SET
\* <the Set columns> WHERE id = ? and returns the row as it then is; with no
\* row of that id it returns a DbErr (RecordNotUpdated), which `?` hands on
WriteUpdate(u) ==
    /\ updates[u].pc = "write"
    /\ LET id == updates[u].id IN
       IF id \in DOMAIN tasks
       THEN LET row == UpdatedRow(tasks[id], updates[u].payload) IN
            /\ tasks' = [tasks EXCEPT ![id] = row]
            /\ updates' = [updates EXCEPT ![u].pc = "done",
                              ![u].resp = [status |-> OK, body |-> {TaskDto(id, row)}]]
       ELSE /\ tasks' = tasks
            /\ updates' = [updates EXCEPT ![u].pc = "done",
                  ![u].resp =
                      [status |-> ErrorResponse(AppError("DbErr", "RecordNotUpdated")).status,
                       body |-> {}]]
    /\ UNCHANGED <<schema, migrator, users, nextTaskId, creator, now, ticks,
                   issued, reqs, last, calls, registered>>

---------------------------------------------------------------------------
(* Schema migrations: Migrator over the SQLite database *)

\* Migrator::migrations(): the migrations in the order they are applied
Migrations ==
    <<"m20250610_035426_create_task_table",
      "m20250615_075512_create_users_table",
      "m20250615_081240_add_user_id_to_tasks">>

\* a database file just created: no table, no index, nothing applied.
\* `columns` are the columns of the tasks table, `applied` the versions
\* recorded in seaql_migrations.
EmptySchema == [tables |-> {}, columns |-> {}, indexes |-> {}, applied |-> {}]

\* the columns create_task_table gives the tasks table
TaskColumns == {"id", "title", "description", "completed", "created_at", "updated_at"}

\* what a migration step hands back: Ok(()) or Err(DbErr), with the schema
\* it leaves behind
Done(s) == [ok |-> TRUE, schema |-> s]
Failed(s) == [ok |-> FALSE, schema |-> s]

\* m20250610_035426 up: CREATE TABLE IF NOT EXISTS tasks (...)
create_task_table_up(s) ==
    IF "tasks" \in s.tables
    THEN Done(s)
    ELSE Done([s EXCEPT !.tables = @ \cup {"tasks"}, !.columns = TaskColumns])

\* m20250610_035426 down: DROP TABLE tasks, which takes the indexes along
create_task_table_down(s) ==
    IF "tasks" \notin s.tables
    THEN Failed(s)
    ELSE Done([s EXCEPT !.tables = @ \ {"tasks"}, !.columns = {}, !.indexes = {}])

\* m20250615_075512 up: the users table
create_users_table_up(s) == Done([s EXCEPT !.tables = @ \cup {"users"}])

\* m20250615_075512 down: the users table dropped
create_users_table_down(s) ==
    IF "users" \notin s.tables
    THEN Failed(s)
    ELSE Done([s EXCEPT !.tables = @ \ {"users"}])

\* m20250615_081240 up: PRAGMA table_info(tasks), ALTER TABLE ADD COLUMN
\* user_id unless the column is there, a look into sqlite_master, CREATE INDEX
\* idx_tasks_user_id unless the index is there. A statement that fails ends
\* the migration with what the earlier statements did.
add_user_id_to_tasks_up(s) ==
    LET user_id_exists == "user_id" \in s.columns IN
    IF ~user_id_exists /\ "tasks" \notin s.tables
    THEN Failed(s)
    ELSE LET s1 == IF user_id_exists THEN s
                   ELSE [s EXCEPT !.columns = @ \cup {"user_id"}] IN
         IF "idx_tasks_user_id" \in s1.indexes
         THEN Done(s1)
         ELSE IF "tasks" \notin s1.tables
         THEN Failed(s1)
         ELSE Done([s1 EXCEPT !.indexes = @ \cup {"idx_tasks_user_id"}])

\* m20250615_081240 down: DROP INDEX idx_tasks_user_id, then ALTER TABLE DROP
\* COLUMN user_id
add_user_id_to_tasks_down(s) ==
    IF "idx_tasks_user_id" \notin s.indexes
    THEN Failed(s)
    ELSE LET s1 == [s EXCEPT !.indexes = @ \ {"idx_tasks_user_id"}] IN
         IF "user_id" \notin s1.columns
         THEN Failed(s1)
         ELSE Done([s1 EXCEPT !.columns = @ \ {"user_id"}])

\* MigrationTrait::up of the migration registered under a version
Up(version, s) ==
    CASE version = Migrations[1] -> create_task_table_up(s)
      [] version = Migrations[2] -> create_users_table_up(s)
      [] version = Migrations[3] -> add_user_id_to_tasks_up(s)

\* MigrationTrait::down of the migration registered under a version
Down(version, s) ==
    CASE version = Migrations[1] -> create_task_table_down(s)
      [] version = Migrations[2] -> create_users_table_down(s)
      [] version = Migrations[3] -> add_user_id_to_tasks_down(s)

RECURSIVE Pick(_, _, _)
\* the versions of `order` recorded as applied (keep) or not recorded (~keep)
Pick(order, s, keep) ==
    IF order = << >> THEN << >>
    ELSE IF (Head(order) \in s.applied) = keep
    THEN <<Head(order)>> \o Pick(Tail(order), s, keep)
    ELSE Pick(Tail(order), s, keep)

Reversed(seq) == [i \in 1..Len(seq) |-> seq[Len(seq) + 1 - i]]

\* the first n entries of a list, all of them for None
Limit(seq, steps) ==
    IF IsSome(steps) /\ Unwrap(steps) < Len(seq)
    THEN SubSeq(seq, 1, Unwrap(steps)) ELSE seq

\* faulty variant: a migrator that keeps no record and runs every migration
\* each time
PendingMigrationsAll(s) == Migrations

\* MigratorTrait::up: the migrations not recorded in seaql_migrations, in order
PendingMigrations(s) == Pick(Migrations, s, FALSE)

\* MigratorTrait::down: the recorded migrations, the latest first
AppliedMigrations(s) == Pick(Reversed(Migrations), s, TRUE)

\* the `num` argument of Migrator::up and Migrator::down
Steps == {None, Some(1), Some(2)}

IdleMigrator ==
    [op |-> "", pc |-> "idle", todo |-> << >>, ok |-> TRUE, start |-> EmptySchema]

\* Migrator::up(db, num) begins: seaql_migrations is created unless it is
\* there, and the pending migrations are listed
BeginUp(steps) ==
    /\ migrator.pc \in {"idle", "done"}
    /\ schema' = [schema EXCEPT !.tables = @ \cup {"seaql_migrations"}]
    /\ migrator' = [op |-> "up", pc |-> "run", todo |-> Limit(PendingMigrations(schema), steps),
                    ok |-> TRUE, start |-> schema]
    /\ UNCHANGED <<updates, users, tasks, nextTaskId, creator, now, ticks, issued, reqs,
                   last, calls, registered>>

\* Migrator::down(db, num) begins
BeginDown(steps) ==
    /\ migrator.pc \in {"idle", "done"}
    /\ schema' = [schema EXCEPT !.tables = @ \cup {"seaql_migrations"}]
    /\ migrator' = [op |-> "down", pc |-> "run", todo |-> Limit(AppliedMigrations(schema), steps),
                    ok |-> TRUE, start |-> schema]
    /\ UNCHANGED <<updates, users, tasks, nextTaskId, creator, now, ticks, issued, reqs,
                   last, calls, registered>>

\* the run takes its next migration: up (down) is executed and the version
\* is inserted into (deleted from) seaql_migrations, whose primary key it is;
\* the first error ends the run, and so does the end of the list. The rows of
\* the tasks table go with the table when it is dropped.
Migrate ==
    /\ migrator.pc = "run"
    /\ IF migrator.todo = << >>
       THEN /\ migrator' = [migrator EXCEPT !.pc = "done"]
            /\ schema' = schema
            /\ tasks' = tasks
       ELSE LET version == Head(migrator.todo)
                r == IF migrator.op = "up" THEN Up(version, schema)
                     ELSE Down(version, schema)
                recorded == (migrator.op = "up") = (version \notin schema.applied) IN
            /\ tasks' = IF "tasks" \in r.schema.tables THEN tasks ELSE << >>
            /\ IF r.ok /\ recorded
               THEN /\ schema' = [r.schema EXCEPT !.applied =
                                     IF migrator.op = "up" THEN @ \cup {version}
                                     ELSE @ \ {version}]
                    /\ migrator' = [migrator EXCEPT !.todo = Tail(@)]
               ELSE /\ schema' = r.schema
                    /\ migrator' = [migrator EXCEPT !.pc = "done", !.ok = FALSE]
    /\ UNCHANGED <<updates, users, nextTaskId, creator, now, ticks, issued, reqs, last,
                   calls, registered>>

\* the database the application serves from: every migration applied
Migrated ==
    LET s1 == create_task_table_up(EmptySchema).schema
        s2 == create_users_table_up(s1).schema
        s3 == add_user_id_to_tasks_up(s2).schema IN
    [s3 EXCEPT !.tables = @ \cup {"seaql_migrations"},
               !.applied = {Migrations[i] : i \in 1..Len(Migrations)}]

NoResponse == [op |-> "", caller |-> Anonymous, id |-> 0, status |-> 0, body |-> {}]

Init ==
    /\ users = {}
    /\ tasks = << >>
    /\ nextTaskId = 0
    /\ creator = << >>
    /\ now = 0
    /\ ticks = 0
    /\ issued = {}
    /\ reqs = [r \in Reqs |-> IdleReq]
    /\ last = NoResponse
    /\ calls = [c \in Calls |-> IdleCall]
    /\ registered = << >>
    /\ schema = Migrated
    /\ migrator = IdleMigrator
    /\ updates = [u \in Updates |-> IdleUpdate]

\* the same with a database file just created, before any migration
InitMigrate ==
    /\ users = {}
    /\ tasks = << >>
    /\ nextTaskId = 0
    /\ creator = << >>
    /\ now = 0
    /\ ticks = 0
    /\ issued = {}
    /\ reqs = [r \in Reqs |-> IdleReq]
    /\ last = NoResponse
    /\ calls = [c \in Calls |-> IdleCall]
    /\ registered = << >>
    /\ schema = EmptySchema
    /\ migrator = IdleMigrator
    /\ updates = [u \in Updates |-> IdleUpdate]

\* the accounts that get registered while the middleware is exercised
Accounts == {<<"alice", "pw1">>, <<"bob", "pw2">>}

NextAuth ==
    \/ \E a \in Accounts : RegisterUser(a[1], a[2])
    \/ \E u \in Usernames, p \in Passwords : LoginUser(u, p)
    \/ \E d \in ClockSteps : Tick(d)
    \/ \E r \in Reqs, h \in ClientHeaders, s \in Secrets : Receive(r, h, s)
    \/ \E r \in Reqs : JwtAuth(r)
    \/ \E r \in Reqs : RunNext(r)

SpecAuth == Init /\ [][NextAuth]_vars

\* the task routes as create_routes wires them: no authentication layer, every
\* request goes straight to its handler
NextTask ==
    \/ \E a \in Accounts : RegisterUser(a[1], a[2])
    \/ \E u \in Usernames, p \in Passwords : LoginUser(u, p)
    \/ \E h \in TaskHeaders, t \in Titles, d \in {None} \cup {Some(x) : x \in Descriptions},
          c \in BOOLEAN, o \in BodyOwners :
            CreateTask(h, CreateTaskPayload(t, d, c, o))
    \/ \E h \in TaskHeaders : GetAllTasks(h)
    \/ \E h \in TaskHeaders, id \in PathIds : GetTaskById(h, id)
    \/ \E h \in TaskHeaders, id \in PathIds, p \in FieldUpdates : UpdateTask(h, id, p)
    \/ \E h \in TaskHeaders, id \in PathIds : DeleteTask(h, id)

SpecTask == Init /\ [][NextTask]_vars

\* the register and login handlers serving concurrent requests
NextAccount ==
    \/ \E c \in Calls, p \in RegisterRequests : RegisterHandler(c, p)
    \/ \E c \in Calls : RegisterInsert(c)
    \/ \E c \in Calls, p \in LoginRequests : LoginHandler(c, p)
    \/ Tick(expires_in)

SpecAccount == Init /\ [][NextAccount]_vars

\* the error boundary on its own: every AppError turned into a response
NextError == \E c \in Calls, err \in AppErrors : IntoResponse(c, err)

SpecError == Init /\ [][NextError]_vars

\* login_user over a mock repository, as the service's unit tests drive it
NextMock ==
    \/ \E c \in Calls, found \in MockFindResults, p \in LoginRequests :
          MockLoginUser(c, found, p)
    \/ \E c \in Calls, find \in MockFindOutcomes, create \in MockCreateOutcomes,
          p \in {q \in RegisterRequests : ValidRegisterRequest(q)} :
            MockRegisterUser(c, find, create, p)
    \/ Tick(expires_in)

SpecMock == Init /\ [][NextMock]_vars

\* Migrator::up and Migrator::down run one after another on one database,
\* which takes task rows while it has a tasks table
NextMigrate ==
    \/ \E steps \in Steps : BeginUp(steps)
    \/ \E steps \in Steps : BeginDown(steps)
    \/ Migrate
    \/ \E t \in Titles, c \in BOOLEAN :
          /\ "tasks" \in schema.tables
          /\ CreateTask(NoHeader, CreateTaskPayload(t, None, c, NULL))

SpecMigrate == InitMigrate /\ [][NextMigrate]_vars

\* the update bodies of the interleaved calls: empty, a description (null or
\* a value), or completed
RaceBodies == {b \in FieldUpdates : b.title = None /\ b.completed # Some(FALSE)}

\* update_task calls interleaved with creations and deletions of tasks
NextRace ==
    \/ \E d \in {None} \cup {Some(x) : x \in Descriptions} :
          CreateTask(NoHeader, CreateTaskPayload("t1", d, FALSE, NULL))
    \/ \E u \in Updates, id \in PathIds, body \in RaceBodies : FindForUpdate(u, id, body)
    \/ \E u \in Updates : WriteUpdate(u)
    \/ \E id \in PathIds : DeleteTask(NoHeader, id)

SpecRace == Init /\ [][NextRace]_vars

---------------------------------------------------------------------------
(* Ownership of tasks (SpecTask) *)

\* a registered user other than the one whose request created task `id`
Foreign(user, id) ==
    /\ id \in DOMAIN creator
    /\ user # Anonymous
    /\ creator[id] # Anonymous
    /\ creator[id] # user

\* what get_task_by_id answers for an id that exists for nobody
NotFoundFor(r) == r.status = NOT_FOUND /\ r.body = {}

\* C1: a task created by user A is returned to A by get_task_by_id, and a
\* distinct user B asking for the same id gets NotFound, the very response B
\* gets for an id that exists for nobody.
C1_GetByIdOwnerOnly ==
    (last.op = "get" /\ last.id \in DOMAIN tasks /\ last.caller # Anonymous) =>
        /\ creator[last.id] = last.caller =>
              last.status = OK /\ last.body = {TaskDto(last.id, tasks[last.id])}
        /\ Foreign(last.caller, last.id) => NotFoundFor(last)

\* C2: every stored task's owner column equals the user id of the authenticated
\* principal whose create_task request created it, whatever owner the request
\* body carried.
C2_OwnerIsCreator ==
    \A id \in DOMAIN tasks :
        creator[id] # Anonymous => tasks[id].user_id = creator[id]

\* C3: the list get_all_tasks returns to a principal holds only tasks that
\* principal created, never a task created by another user.
C3_ListOwnTasksOnly ==
    (last.op = "list" /\ last.caller # Anonymous) =>
        \A t \in last.body : ~Foreign(last.caller, t.id)

\* C4: update_task or delete_task issued by user B against the id of a task
\* created by another user A answers NotFound and leaves A's task in place.
C4_ForeignWriteNotFound ==
    (last.op \in {"update", "delete"} /\ Foreign(last.caller, last.id)) =>
        /\ NotFoundFor(last)
        /\ last.id \in DOMAIN tasks

\* C5: a task handler runs only for a request the token validator admits: a
\* request to a task route without a valid bearer token is answered 401 and
\* the handler does not run.
C5_TaskRoutesRequireToken ==
    (last.op # "" /\ last.caller = Anonymous) => last.status = UNAUTHORIZED

---------------------------------------------------------------------------
(* The token validator (SpecAuth) *)

\* request r carries "Bearer <t>" with t a token login_user issued, and the
\* middleware it reaches is configured with the secret login_user signs with
CarriesIssued(r) ==
    /\ reqs[r].header.present /\ reqs[r].header.readable
    /\ reqs[r].header.scheme = "Bearer "
    /\ reqs[r].header.token \in issued
    /\ reqs[r].secret = jwt_secret

\* the middleware gives its verdict on request r in this step
Verdict(r) == reqs[r].pc = "auth" /\ reqs'[r].pc # "auth"

\* the middleware has answered request r itself, without calling `next`
Rejected(r) == reqs[r].pc = "done" /\ ~reqs[r].ran

Exp(r) == reqs[r].header.token.payload.exp

\* C6 as claimed: a token issued by login_user, presented to the middleware
\* configured with the same secret, is accepted at every time up to its exp and
\* rejected at every time after its exp.
C6_AcceptedUntilExp ==
    [][\A r \in Reqs :
          (Verdict(r) /\ CarriesIssued(r)) => (reqs'[r].pc = "next" <=> now <= Exp(r))]_vars

\* C6 as it holds: such a token is accepted at every time up to its exp plus
\* the 60 seconds of leeway of Validation::default(), and rejected with 401 at
\* every later time.
C6_AcceptedUntilExpPlusLeeway ==
    [][\A r \in Reqs :
          (Verdict(r) /\ CarriesIssued(r)) =>
              /\ reqs'[r].pc = "next" <=> now <= Exp(r) + leeway
              /\ reqs'[r].pc # "next" => reqs'[r].resp.status = UNAUTHORIZED]_vars

\* a login token was rejected on the first second past its leeway, and another
\* request carrying it was admitted earlier
C6_Witness ==
    \E r \in Reqs :
        /\ CarriesIssued(r) /\ Rejected(r)
        /\ now = Exp(r) + leeway + 1
        /\ reqs[r].resp.status = UNAUTHORIZED
        /\ \E q \in Reqs : reqs[q].ran /\ reqs[q].header = reqs[r].header

\* request r carries a well-formed bearer token signed with another secret
\* than the one its middleware is configured with
SignedWithOtherSecret(r) ==
    /\ reqs[r].header.present /\ reqs[r].header.readable
    /\ reqs[r].header.scheme = "Bearer "
    /\ reqs[r].header.token.wellformed
    /\ \E s \in Secrets \ {reqs[r].secret} :
          reqs[r].header.token.sig = Sign(reqs[r].header.token.payload, s)

\* C7: a token signed with one secret and presented to a middleware configured
\* with a different secret is rejected with 401 and the downstream handler does
\* not run, even when the token is well-formed and unexpired.
C7_OtherSecretRejected ==
    \A r \in Reqs :
        (reqs[r].pc \in {"next", "done"} /\ SignedWithOtherSecret(r)) =>
            /\ Rejected(r)
            /\ ~reqs[r].ext.present
            /\ reqs[r].resp.status = UNAUTHORIZED

\* an unexpired token login_user signed was rejected by a middleware
\* configured with another secret
C7_Witness ==
    \E r \in Reqs :
        /\ Rejected(r) /\ SignedWithOtherSecret(r)
        /\ reqs[r].header.token \in issued
        /\ now <= Exp(r)
        /\ reqs[r].secret # jwt_secret

\* the Authorization header of request r is absent, unreadable, or does not
\* start with "Bearer "
NoBearer(r) ==
    \/ ~reqs[r].header.present
    \/ ~reqs[r].header.readable
    \/ reqs[r].header.scheme # "Bearer "

\* C8: when the Authorization header is absent, unreadable, or does not start
\* with "Bearer ", the middleware answers 401 at once: it decodes no token,
\* attaches no AuthenticatedUser and never calls the next stage.
C8_NoBearerRejectedAtOnce ==
    \A r \in Reqs :
        (reqs[r].pc \in {"next", "done"} /\ NoBearer(r)) =>
            /\ Rejected(r)
            /\ reqs[r].resp.status = UNAUTHORIZED
            /\ ~reqs[r].decoded
            /\ ~reqs[r].ext.present

\* a request carrying a valid login token under the scheme "Basic " was rejected
C8_Witness ==
    \E r \in Reqs :
        /\ Rejected(r)
        /\ reqs[r].header.scheme = "Basic "
        /\ reqs[r].header.token \in issued
        /\ reqs[r].secret = jwt_secret
        /\ now <= Exp(r)

\* C9: all requests the middleware rejects get the same response, whatever the
\* reason: missing header, wrong scheme, malformed token, bad signature or
\* expired token.
C9_RejectionsAlike ==
    \A r, q \in Reqs :
        (Rejected(r) /\ Rejected(q)) => reqs[r].resp = reqs[q].resp

\* two rejections side by side: one of an expired login token, one of a
\* request without a bearer token
C9_Witness ==
    \E r, q \in Reqs :
        /\ Rejected(r) /\ Rejected(q)
        /\ CarriesIssued(r) /\ reqs[r].decoded
        /\ NoBearer(q)

\* C10: the handler of a request with a valid token runs with an
\* AuthenticatedUser whose user_id is the token's sub and whose username is the
\* token's username; with requests interleaved, the principal a handler sees
\* comes from its own request's token.
C10_PrincipalFromOwnToken ==
    \A r \in Reqs :
        LET claims == reqs[r].header.token.payload
            own == [user_id |-> claims.sub, username |-> claims.username] IN
        /\ reqs[r].pc = "next" => reqs[r].ext.present /\ reqs[r].ext.user = own
        /\ reqs[r].ran => reqs[r].resp = [status |-> OK, body |-> own]

\* two admitted requests of different users were in flight together, and the
\* handler of the later one ran first
C10_Witness ==
    \E r, q \in Reqs :
        /\ r < q
        /\ reqs[r].pc = "next" /\ reqs[q].ran
        /\ reqs[r].ext.user.user_id # reqs[q].ext.user.user_id

---------------------------------------------------------------------------
(* Registration and login through the handlers (SpecAccount) *)

StoredNames == {u.username : u \in users}

\* call c has returned from the login handler
LoginDone(c) == calls[c].op = "login" /\ calls[c].pc = "done"

\* call c has returned from the register handler
RegisterDone(c) == calls[c].op = "register" /\ calls[c].pc = "done"

\* in this step the login handler answers call c
LoginReturns(c) == calls'[c] # calls[c] /\ calls'[c].op = "login"

\* in this step the register handler takes up call c
RegisterStarts(c) ==
    calls'[c] # calls[c] /\ calls'[c].op = "register" /\ calls[c].pc # "insert"

\* in this step call c returns from the insert of register_user
InsertReturns(c) == calls[c].pc = "insert" /\ calls'[c].pc = "done"

\* C11: a login with a username that is not registered and a login with a
\* registered username and a wrong password end in exactly the same error
\* outcome, InvalidCredentials with the same status and message.
C11_LoginErrorsAlike ==
    \A c, d \in Calls :
        ( /\ LoginDone(c) /\ LoginDone(d)
          /\ calls[c].payload.username # "" /\ calls[c].payload.password # ""
          /\ calls[c].payload.username \notin StoredNames
          /\ calls[d].payload.username \in DOMAIN registered
          /\ calls[d].payload.password # ""
          /\ calls[d].payload.password # registered[calls[d].payload.username].password )
        => /\ calls[c].result = calls[d].result
           /\ calls[c].result.err.kind = "InvalidCredentials"
           /\ calls[c].result.response.status = UNAUTHORIZED

\* a login with an unknown username and one with a wrong password for a
\* registered username, both answered while that user was in the store
C11_Witness ==
    \E c, d \in Calls :
        /\ LoginDone(c) /\ LoginDone(d)
        /\ calls[c].payload = [username |-> "bobby", password |-> "passw0rd"]
        /\ calls[d].payload.username \in DOMAIN registered
        /\ calls[d].payload.password # ""
        /\ calls[d].payload.password # registered[calls[d].payload.username].password
        /\ ~calls[d].result.ok

\* C12: after register_user(u, p) has succeeded, login_user(u, q) succeeds if
\* and only if q = p, and on success returns the id the registration returned
\* and the username u.
C12_LoginIffRegisteredPassword ==
    [][\A c \in Calls :
          LET u == calls'[c].payload.username
              q == calls'[c].payload.password IN
          (LoginReturns(c) /\ u \in DOMAIN registered) =>
              /\ calls'[c].result.ok <=> q = registered[u].password
              /\ calls'[c].result.ok =>
                    /\ calls'[c].result.value.user.id = registered[u].id
                    /\ calls'[c].result.value.user.username = u]_vars

\* a registered user has logged in with the password of the registration while
\* another login for the same user with another password was turned down
C12_Witness ==
    \E c, d \in Calls :
        /\ LoginDone(c) /\ LoginDone(d)
        /\ calls[c].payload.username \in DOMAIN registered
        /\ calls[d].payload.username = calls[c].payload.username
        /\ calls[c].result.ok
        /\ calls[d].payload.password # "" /\ ~calls[d].result.ok
        /\ calls[d].read

\* C13: register_user for a username already in the store returns
\* UserAlreadyExists carrying that username, creates no record, and leaves the
\* existing record's id and password_hash as its registration made them (the
\* original password verifies, no other does).
C13_TakenUsernameConflict ==
    [][/\ \A c \in Calls :
             LET payload == calls'[c].payload IN
             ( /\ RegisterStarts(c)
               /\ Len(payload.username) >= 3 /\ Len(payload.password) >= 8
               /\ payload.confirm_password = payload.password
               /\ payload.username \in StoredNames )
             => /\ calls'[c].pc = "done"
                /\ calls'[c].result.err = AppError("UserAlreadyExists", payload.username)
                /\ calls'[c].result.response.status = CONFLICT
                /\ users' = users
       /\ \A u \in users' :
             /\ u.id = registered'[u.username].id
             /\ \A q \in {"passw0rd", "hunter22", "short"} :
                   VerifyPassword(q, u.password_hash)
                       <=> q = registered'[u.username].password]_vars

\* a second registration of a stored username, with another password, has been
\* turned down
C13_Witness ==
    \E c \in Calls :
        /\ RegisterDone(c)
        /\ calls[c].payload.username \in DOMAIN registered
        /\ calls[c].payload.password # registered[calls[c].payload.username].password
        /\ calls[c].result.response.status = CONFLICT
        /\ ~calls[c].wrote

\* C14: under every interleaving of concurrent register_user calls with the
\* same username, also when all pass the pre-check before any inserts, at most
\* one call returns success and the store never holds two users with the same
\* username.
C14_OneRegistrationWins ==
    [][/\ \A c \in Calls :
             (InsertReturns(c) /\ calls'[c].result.ok) =>
                 calls[c].payload.username \notin DOMAIN registered
       /\ \A u, v \in users' : u.username = v.username => u = v]_vars

\* two calls for one username were past the pre-check together; one has
\* returned success, the other was stopped by the store
C14_Witness ==
    \E c, d \in Calls :
        /\ RegisterDone(c) /\ RegisterDone(d)
        /\ calls[c].payload.username = calls[d].payload.username
        /\ calls[c].result.ok
        /\ ~calls[d].result.ok /\ calls[d].read /\ ~calls[d].wrote
        /\ calls[d].result.err.kind # "UserAlreadyExists"

\* C15: a register_user call that passed the pre-check and whose insert the
\* store's uniqueness constraint rejects returns the Conflict the pre-check
\* would have produced: UserAlreadyExists with the username.
C15_LostRaceIsConflict ==
    [][\A c \in Calls :
          (InsertReturns(c) /\ ~calls'[c].result.ok) =>
              /\ calls'[c].result.err =
                    AppError("UserAlreadyExists", calls[c].payload.username)
              /\ calls'[c].result.response.status = CONFLICT]_vars

\* C16: a registration with a username under 3 characters, a password under 8
\* characters or a confirmation that differs, and a login with an empty
\* username or password, end in BadRequest without a read or write of the
\* credential store.
C16_InvalidInputNoStoreAccess ==
    [][\A c \in Calls :
          LET payload == calls'[c].payload IN
          \/ /\ RegisterStarts(c)
             /\ \/ Len(payload.username) < 3
                \/ Len(payload.password) < 8
                \/ payload.confirm_password # payload.password
          \/ /\ LoginReturns(c)
             /\ payload.username = "" \/ payload.password = ""
          => /\ calls'[c].pc = "done"
             /\ calls'[c].result.err.kind = "BadRequest"
             /\ calls'[c].result.response.status = BAD_REQUEST
             /\ ~calls'[c].read /\ ~calls'[c].wrote
             /\ users' = users]_vars

\* a registration whose confirmation differs and a login without a password
\* have both been answered with BadRequest
C16_Witness ==
    \E c, d \in Calls :
        /\ RegisterDone(c) /\ LoginDone(d)
        /\ calls[c].payload = [username |-> "alice", password |-> "passw0rd",
                               confirm_password |-> "short"]
        /\ calls[d].payload = [username |-> "alice", password |-> ""]
        /\ calls[c].result.response.status = BAD_REQUEST
        /\ calls[d].result.response.status = BAD_REQUEST

\* C17: every user in the credential store has a username of at least 3 and at
\* most 50 characters.
C17_UsernameLength ==
    \A u \in users : Len(u.username) >= 3 /\ Len(u.username) <= 50

\* C18: every token login_user issues carries the user's id as sub, the user's
\* username, iat = the time of the login and exp = iat + 86400, so exp > iat;
\* the response reports expires_in = 86400 and token_type = "Bearer".
C18_TokenClaims ==
    [][\A c \in Calls :
          (LoginReturns(c) /\ calls'[c].result.ok) =>
              LET value == calls'[c].result.value
                  claims == value.access_token.payload IN
              /\ \E u \in users :
                    /\ u.username = calls'[c].payload.username
                    /\ claims.sub = u.id /\ claims.username = u.username
              /\ claims.iat = now
              /\ claims.exp = claims.iat + 86400
              /\ claims.exp > claims.iat
              /\ value.expires_in = 86400
              /\ value.token_type = "Bearer"
              /\ value.access_token \in issued']_vars

\* a login has succeeded a day after the start, and the token carries that time
C18_Witness ==
    \E c \in Calls :
        /\ LoginDone(c) /\ calls[c].result.ok
        /\ now > 0
        /\ calls[c].result.value.access_token.payload.iat = now

\* C19: once registration has created a user, its id, username and
\* password_hash never change and the user is never removed.
C19_UsersNeverChange == [][users \subseteq users']_vars

\* with a user in the store, another registration of the same username went as
\* far as the insert, and logins of that user were served
C19_Witness ==
    \E c, d \in Calls :
        /\ RegisterDone(c) /\ calls[c].read /\ ~calls[c].wrote
        /\ calls[c].result.err.kind = "DbErr"
        /\ calls[c].payload.username \in StoredNames
        /\ LoginDone(d) /\ calls[d].result.ok

\* C20: no result of register_user or login_user contains the password hash:
\* the profile returned is the id and the username of the stored user and
\* nothing else, so it is the same in two stores that differ in the user's
\* password_hash only.
C20_NoHashInResults ==
    \A c \in Calls :
        (calls[c].pc = "done" /\ calls[c].result.ok) =>
            LET value == calls[c].result.value IN
            /\ \E u \in users :
                  value.user = [id |-> u.id, username |-> u.username]
            /\ calls[c].op = "register" => value = [user |-> value.user]
            /\ calls[c].op = "login" =>
                  /\ DOMAIN value = {"access_token", "token_type", "expires_in", "user"}
                  /\ DOMAIN value.access_token.payload = {"sub", "username", "exp", "iat"}

\* a registration and a login of the same user have both returned a profile
C20_Witness ==
    \E c, d \in Calls :
        /\ RegisterDone(c) /\ calls[c].result.ok
        /\ LoginDone(d) /\ calls[d].result.ok
        /\ calls[c].result.value.user = calls[d].result.value.user

---------------------------------------------------------------------------
(* The error boundary (SpecError) *)

Internal(err) == err.kind \in {"DbErr", "PasswordHashError", "TokenGenerationError"}

\* C21: every Internal-class error (DbErr, PasswordHashError,
\* TokenGenerationError) is answered with status 500 and one fixed generic
\* message: two such errors with different internal detail get identical
\* responses.
C21_InternalErrorsOpaque ==
    \A c, d \in Calls :
        ( /\ calls[c].pc = "done" /\ Internal(calls[c].result.err)
          /\ calls[d].pc = "done" /\ Internal(calls[d].result.err) )
        => /\ calls[c].result.response = calls[d].result.response
           /\ calls[c].result.response.status = INTERNAL_SERVER_ERROR
           /\ calls[c].result.response.message = <<"internal server error">>

\* a hashing failure and a signing failure with different details have both
\* been answered
C21_Witness ==
    \E c, d \in Calls :
        /\ calls[c].pc = "done" /\ calls[d].pc = "done"
        /\ calls[c].result.err = AppError("PasswordHashError", "detail 1")
        /\ calls[d].result.err = AppError("TokenGenerationError", "detail 2")

---------------------------------------------------------------------------
(* Password hashes (SpecAccount) *)

\* C22: two registrations with the same plaintext password store different
\* password hashes (a fresh salt per hashing call), and each of the two users
\* can log in with that password.
C22_SamePasswordDifferentHash ==
    \A u, v \in users :
        (u # v /\ registered[u.username].password = registered[v.username].password)
        => /\ u.password_hash # v.password_hash
           /\ \A w \in {u, v} :
                 login_user([username |-> w.username,
                             password |-> registered[w.username].password], now).ok

\* two users registered with one password are in the store, and one of them
\* has logged in with it
C22_Witness ==
    \E u, v \in users, c \in Calls :
        /\ u # v
        /\ registered[u.username].password = registered[v.username].password
        /\ LoginDone(c) /\ calls[c].result.ok
        /\ calls[c].payload.username = u.username
        /\ calls[c].payload.password = registered[v.username].password

---------------------------------------------------------------------------
(* login_user over a mock repository (SpecMock) *)

\* C23: login_user for a user whose stored password_hash is malformed never
\* issues a token: it ends in PasswordHashError, which the caller sees as the
\* generic 500 failure.
C23_MalformedHashIsInternal ==
    [][\A c \in Calls, found \in MockFindResults :
          ( /\ calls'[c] # calls[c]
            /\ calls'[c].result = login_with(found, calls'[c].payload, now)
            /\ \E m \in found : m.password_hash = MalformedHash )
          => /\ ~calls'[c].result.ok
             /\ calls'[c].result.err.kind = "PasswordHashError"
             /\ calls'[c].result.response =
                   [status |-> INTERNAL_SERVER_ERROR,
                    message |-> <<"internal server error">>]
             /\ issued' = issued]_vars

\* a login for a user with a malformed hash was answered with 500 while a
\* login for the same user with a proper hash got its token
C23_Witness ==
    \E c, d \in Calls :
        /\ LoginDone(c) /\ LoginDone(d)
        /\ calls[c].result.err.kind = "PasswordHashError"
        /\ calls[c].payload.password = "passw0rd"
        /\ calls[d].result.ok

---------------------------------------------------------------------------
(* Partial task updates (SpecTask) *)

\* the description a partial update is to leave behind: the stored one for a
\* member left out, none for an explicit null, the value sent otherwise
DescriptionAfter(member, stored) ==
    IF ~IsSome(member) THEN stored ELSE Unwrap(member)

\* C24: an update of a stored task treats each field in one of three ways: a
\* field left out of the body keeps its stored value, a description sent as
\* explicit null clears the stored description, and a field sent with a value
\* takes that value.
C24_PartialUpdateThreeCases ==
    [][\A h \in TaskHeaders, id \in DOMAIN tasks, body \in FieldUpdates :
          UpdateTask(h, id, body)
          => /\ tasks'[id].title =
                   IF IsSome(body.title) THEN Unwrap(body.title) ELSE tasks[id].title
             /\ tasks'[id].completed =
                   IF IsSome(body.completed) THEN Unwrap(body.completed)
                   ELSE tasks[id].completed
             /\ tasks'[id].description =
                   DescriptionAfter(body.description, tasks[id].description)]_vars

---------------------------------------------------------------------------
(* Stateless token validation (SpecAuth) *)

\* the header is "Bearer <token>" and the token verifies under the secret at
\* time t: well-formed, signed with the secret, not past its exp plus leeway
ValidAt(header, secret, t) ==
    /\ header.present /\ header.readable /\ header.scheme = "Bearer "
    /\ header.token.wellformed
    /\ header.token.sig = Sign(header.token.payload, secret)
    /\ t <= header.token.payload.exp + leeway

\* C25: the verdict of the token validator on a request is determined by the
\* Authorization header, the configured secret and the current time alone: it
\* admits exactly the headers valid at that time, whatever requests were
\* validated before, attaches the principal named in the token, and leaves the
\* credential store, the task store and the issued tokens as they are.
C25_ValidationStateless ==
    [][\A r \in Reqs :
          Verdict(r) =>
             /\ reqs'[r].pc = "next" <=> ValidAt(reqs[r].header, reqs[r].secret, now)
             /\ reqs'[r].pc = "next" =>
                   reqs'[r].ext.user = [user_id |-> reqs[r].header.token.payload.sub,
                                        username |-> reqs[r].header.token.payload.username]
             /\ reqs'[r].pc # "next" =>
                   /\ reqs'[r].pc = "done" /\ ~reqs'[r].ext.present
                   /\ reqs'[r].resp = StatusResponse(UNAUTHORIZED)
             /\ \A q \in Reqs \ {r} : reqs'[q] = reqs[q]
             /\ UNCHANGED <<updates, schema, migrator, users, tasks, issued, now>>]_vars

\* a token was rejected as expired although an earlier request with the very
\* same header and secret had been admitted and is still on record
C25_Witness ==
    \E r, q \in Reqs :
        /\ r # q
        /\ reqs[q].ext.present /\ reqs[q].pc = "done"
        /\ reqs[r].header = reqs[q].header /\ reqs[r].secret = reqs[q].secret
        /\ Rejected(r) /\ reqs[r].decoded
        /\ ValidAt(reqs[r].header, reqs[r].secret, Exp(r))
        /\ now > Exp(r) + leeway

---------------------------------------------------------------------------
(* Creating, deleting and reading tasks (SpecTask) *)

\* C26: the store holds exactly the tasks created and not since deleted. A
\* create adds one task under an id never used before, a delete removes the
\* task of its id and nothing else, and no other request adds or removes a
\* task (a step that leaves the last response as it is leaves the store as it
\* is); get_task_by_id succeeds exactly for the ids in the store,
\* get_all_tasks returns exactly the stored tasks, and delete_task for an id
\* not in the store, an already deleted one included, answers TaskNotFound.
C26_StoreIsCreatedMinusDeleted ==
    [][LET id == last'.id IN
       /\ last' = last => tasks' = tasks
       /\ (last' # last /\ last'.op = "create")
             => /\ id \notin DOMAIN creator
                /\ DOMAIN tasks' = DOMAIN tasks \cup {id}
                /\ last'.status = CREATED
       /\ (last' # last /\ last'.op = "delete")
             => /\ DOMAIN tasks' = DOMAIN tasks \ {id}
                /\ \A i \in DOMAIN tasks' : tasks'[i] = tasks[i]
                /\ id \in DOMAIN tasks => last'.status = NO_CONTENT
                /\ id \notin DOMAIN tasks => NotFoundFor(last')
       /\ (last' # last /\ last'.op = "get")
             => /\ tasks' = tasks
                /\ id \in DOMAIN tasks
                      => last'.status = OK /\ last'.body = {TaskDto(id, tasks[id])}
                /\ id \notin DOMAIN tasks => NotFoundFor(last')
       /\ (last' # last /\ last'.op = "list")
             => /\ tasks' = tasks
                /\ last'.status = OK
                /\ last'.body = {TaskDto(i, tasks[i]) : i \in DOMAIN tasks}
       /\ (last' # last /\ last'.op = "update")
             => DOMAIN tasks' = DOMAIN tasks]_vars

\* a task that was created and then deleted has been asked for and not found,
\* while a task created beside it is still in the store
C26_Witness ==
    /\ last.op = "get" /\ NotFoundFor(last)
    /\ last.id \in DOMAIN creator /\ last.id \notin DOMAIN tasks
    /\ DOMAIN tasks # {}

---------------------------------------------------------------------------
(* Running the migrations again (SpecMigrate) *)

AllApplied(s) == \A i \in 1..Len(Migrations) : Migrations[i] \in s.applied

\* C27: a run of all migrations on a database on which every migration has
\* been applied returns no error and leaves the schema as it found it: the
\* tasks table, its user_id column and the index idx_tasks_user_id are there,
\* as they were after the first run.
C27_SecondRunIdempotent ==
    (migrator.op = "up" /\ migrator.pc = "done" /\ AllApplied(migrator.start))
        => /\ migrator.ok
           /\ schema = migrator.start
           /\ "tasks" \in schema.tables
           /\ "user_id" \in schema.columns
           /\ "idx_tasks_user_id" \in schema.indexes

\* a run of all migrations has ended on a database that an earlier run had
\* fully migrated
C27_Witness ==
    /\ migrator.op = "up" /\ migrator.pc = "done"
    /\ AllApplied(migrator.start)
    /\ "idx_tasks_user_id" \in migrator.start.indexes

---------------------------------------------------------------------------
(* The order of register_user (SpecMock) *)

\* C28: register_user calls create only after find_by_username has returned
\* no user. When the lookup finds the username the call ends in
\* UserAlreadyExists, when the lookup fails it ends in the store error, and in
\* both cases create is never called.
C28_CreateOnlyAfterEmptyLookup ==
    [][\A c \in Calls, find \in MockFindOutcomes, create \in MockCreateOutcomes :
          ( /\ calls'[c] # calls[c]
            /\ calls'[c].op = "register"
            /\ calls'[c].result = register_user(find, create, calls'[c].payload).result )
          => /\ calls'[c].wrote => calls'[c].read
             /\ calls'[c].wrote <=> (find.ok /\ find.found = {})
             /\ (find.ok /\ find.found # {})
                   => /\ ~calls'[c].wrote
                      /\ calls'[c].result.err =
                            AppError("UserAlreadyExists", calls'[c].payload.username)
             /\ ~find.ok => ~calls'[c].wrote /\ calls'[c].result.err.kind = "DbErr"
             /\ users' = users]_vars

\* one registration ended in the store error of its lookup and another found
\* the username taken, neither having called create
C28_Witness ==
    \E c, d \in Calls :
        /\ RegisterDone(c) /\ RegisterDone(d)
        /\ calls[c].result.err = AppError("DbErr", "lookup failed") /\ ~calls[c].wrote
        /\ calls[d].result.err.kind = "UserAlreadyExists" /\ ~calls[d].wrote

---------------------------------------------------------------------------
(* A delete between the find and the write of an update (SpecRace) *)

\* update call u has found its task and not yet written
Writing(u) == updates[u].pc = "write"

\* C29: when delete_task(id) completes between the find_by_id and the write
\* of an update_task(id), the write does not bring the task back and the
\* update does not report success; a task once deleted stays absent.
C29_DeletedStaysDeleted ==
    [][/\ \A id \in DOMAIN creator \ DOMAIN tasks : id \notin DOMAIN tasks'
       /\ \A u \in Updates :
             (Writing(u) /\ updates'[u].pc = "done" /\ updates[u].id \notin DOMAIN tasks)
             => /\ updates[u].id \notin DOMAIN tasks'
                /\ updates'[u].resp.status # OK
                /\ updates'[u].resp.body = {}]_vars

\* an update that had found its task ended in an error after a delete of that
\* task had completed, and the task is absent
C29_Witness ==
    \E u \in Updates :
        /\ updates[u].pc = "done"
        /\ updates[u].resp.status = INTERNAL_SERVER_ERROR
        /\ updates[u].id \in DOMAIN creator \ DOMAIN tasks
        /\ last.op = "delete" /\ last.id = updates[u].id /\ last.status = NO_CONTENT

---------------------------------------------------------------------------
(* Admitted principals and the credential store (SpecAuth) *)

\* C30: with tokens produced by login_user alone, every principal that a
\* middleware configured with login_user's secret admits carries the user_id
\* and the username of a user who is in the credential store at that time.
C30_AdmittedPrincipalIsStoredUser ==
    \A r \in Reqs :
        (reqs[r].ext.present /\ reqs[r].secret = jwt_secret)
        => \E u \in users :
              /\ u.id = reqs[r].ext.user.user_id
              /\ u.username = reqs[r].ext.user.username

\* with two users in the store, a request was admitted as one of them while a
\* request with a token edited to name the other was turned away
C30_Witness ==
    \E r, q \in Reqs :
        /\ Cardinality(users) = 2
        /\ reqs[r].ext.present /\ reqs[r].secret = jwt_secret
        /\ reqs[r].header.token \in issued
        /\ Rejected(q) /\ reqs[q].secret = jwt_secret
        /\ reqs[q].header.token \in Tampered(reqs[r].header.token)
        /\ reqs[q].header.token.payload.sub # reqs[r].ext.user.user_id

====
